---- MODULE Spec2Model ----
(***************************************************************************)
(* A model of src/import3.py: the Taiwanese-stock analysis page.           *)
(*                                                                         *)
(* The reconciliation pipeline fetch_data -> merge_data ->                 *)
(* extract_financial_data and its caller main() are modelled, with the     *)
(* one-hour st.cache_data cache that wraps fetch_data.                     *)
(*                                                                         *)
(* Conventions.                                                            *)
(*  - TLA+ strings are ASCII-only, so the Chinese column labels of the     *)
(*    source are written with ASCII labels; the table below gives the      *)
(*    correspondence.                                                      *)
(*        "StockId"        股票代號      "CompanyCode"     公司代號        *)
(*        "CompanyName"    公司名稱      "UnknownCompany"  未知公司        *)
(*        "Revenue"        營業額        "RevenueShort"    營收            *)
(*        "OperatingRevenue" 營業收入    "GrossProfit"     營業毛利        *)
(*        "OperatingIncome" 營業利益     "Year"            年度            *)
(*        "Quarter"        季別          "FiscalYear"      財報年度        *)
(*        "FiscalQuarter"  財報季度                                        *)
(*        "NetIncome"      稅後淨利      "NetIncomeLoss"   本期淨利（淨損）*)
(*        "NetLoss"        稅後淨損      "Profit"          淨利            *)
(*        "BasicEPS"       基本每股盈餘  "BasicEPSYuan"  基本每股盈餘（元）*)
(*        "EPSLong"        每股盈餘      "ReturnOnEquity"  股東權益報酬率  *)
(*        "PE"             本益比        "Yield"           殖利率          *)
(*        "DivYield"       股利殖利率    "PB"              股價淨值比      *)
(*        "Close"          收盤價        "Price"           股價            *)
(*        "MonthAvg"       月均價        "MonthAvgLong"    月平均價        *)
(*    "EPS", "ROE", "Code", "Name", "P/E", "P/B", "PBR", "PEratio",        *)
(*    "DividendYield", "PBratio", "ClosingPrice", "MonthlyAveragePrice"    *)
(*    are the source's own labels.                                         *)
(*  - str.strip, str.replace, str(int) and float(str) are computed         *)
(*    character by character on the text.                                  *)
(*  - A Python float is an integer number of hundredths (12.5 is 1250).    *)
(*    Every textual number of the model has at most two decimals, and the  *)
(*    one division of the program (the derived ROE) is rounded to two      *)
(*    decimals by the program itself.                                      *)
(*  - A cell of a table is [k, v, s]: k is "null" (None / NaN), "int" (a   *)
(*    JSON integer v), "float" (v hundredths) or "str" (the text s).       *)
(*  - A DataFrame is [cols, rows]: the sequence of column labels (pandas   *)
(*    allows a label to occur twice) and the rows, each a sequence of      *)
(*    cells aligned with cols.                                             *)
(*  - Python's None is the empty sequence and a value x is <<x>>.          *)
(***************************************************************************)
EXTENDS Integers, Sequences, FiniteSets, TLC

\* ------------------------------------------------------------------ cells

Null == [k |-> "null", v |-> 0, s |-> ""]
IntCell(n) == [k |-> "int", v |-> n, s |-> ""]
FloatCell(c) == [k |-> "float", v |-> c, s |-> ""]
StrCell(t) == [k |-> "str", v |-> 0, s |-> t]

Digits == "0123456789"

\* The i-th character of a text.
Ch(t, i) == SubSeq(t, i, i)

IsDigit(ch) == ch \in {"0", "1", "2", "3", "4", "5", "6", "7", "8", "9"}

DigitValue(ch) ==
    CASE ch = "0" -> 0 [] ch = "1" -> 1 [] ch = "2" -> 2 [] ch = "3" -> 3
      [] ch = "4" -> 4 [] ch = "5" -> 5 [] ch = "6" -> 6 [] ch = "7" -> 7
      [] ch = "8" -> 8 [] ch = "9" -> 9

\* str(n) of a Python int.
NatToStr(n) ==
    LET str[k \in 0..n] ==
            IF k < 10 THEN Ch(Digits, k + 1)
            ELSE str[k \div 10] \o Ch(Digits, (k % 10) + 1)
    IN  str[n]

IntToStr(n) == IF n < 0 THEN "-" \o NatToStr(-n) ELSE NatToStr(n)

\* str(x) of a Python float of at most two decimals: 2330.0 is "2330.0",
\* 12.5 is "12.5", 0.25 is "0.25".
FloatToStr(c) ==
    LET a == IF c < 0 THEN -c ELSE c
        sign == IF c < 0 THEN "-" ELSE ""
        frac == a % 100
    IN  sign \o NatToStr(a \div 100) \o "." \o
        (IF frac % 10 = 0 THEN Ch(Digits, (frac \div 10) + 1)
         ELSE Ch(Digits, (frac \div 10) + 1) \o Ch(Digits, (frac % 10) + 1))

\* Series.astype(str), one element.
AsStr(cell) ==
    CASE cell.k = "str" -> cell.s
      [] cell.k = "int" -> IntToStr(cell.v)
      [] cell.k = "float" -> FloatToStr(cell.v)
      [] OTHER -> "None"

\* str.replace(ch, '').
RemoveChar(t, ch) ==
    LET out[i \in 0..Len(t)] ==
            IF i = 0 THEN ""
            ELSE out[i - 1] \o (IF Ch(t, i) = ch THEN "" ELSE Ch(t, i))
    IN  out[Len(t)]

\* str.strip() for the blank character.
Strip(t) ==
    LET inked == {i \in 1..Len(t) : Ch(t, i) # " "}
        first == CHOOSE i \in inked : \A j \in inked : i <= j
        last == CHOOSE i \in inked : \A j \in inked : j <= i
    IN  IF inked = {} THEN "" ELSE SubSeq(t, first, last)

\* The value of a run of digits.
DigitsValue(t) ==
    LET val[i \in 0..Len(t)] ==
            IF i = 0 THEN 0 ELSE val[i - 1] * 10 + DigitValue(Ch(t, i))
    IN  val[Len(t)]

AllDigits(t) == \A i \in 1..Len(t) : IsDigit(Ch(t, i))

\* The position of the first "." of t, or 0.
DotAt(t) ==
    IF \E i \in 1..Len(t) : Ch(t, i) = "."
    THEN CHOOSE i \in 1..Len(t) :
             Ch(t, i) = "." /\ \A j \in 1..(i - 1) : Ch(t, j) # "."
    ELSE 0

\* float(text): <<hundredths>>, or <<>> for ValueError.  Accepts an optional
\* sign, digits and at most one "." with at least one digit around it; a
\* third decimal and beyond are dropped (no text of the model has one).
ParseFloat(t) ==
    LET neg == Len(t) > 0 /\ Ch(t, 1) = "-"
        signed == Len(t) > 0 /\ (Ch(t, 1) = "-" \/ Ch(t, 1) = "+")
        body == IF signed THEN SubSeq(t, 2, Len(t)) ELSE t
        dot == DotAt(body)
        whole == IF dot = 0 THEN body ELSE SubSeq(body, 1, dot - 1)
        frac == IF dot = 0 THEN "" ELSE SubSeq(body, dot + 1, Len(body))
        two == SubSeq(frac \o "00", 1, 2)
        mag == DigitsValue(whole) * 100 + DigitsValue(two)
    IN  IF AllDigits(whole) /\ AllDigits(frac) /\ Len(whole) + Len(frac) > 0
        THEN <<IF neg THEN -mag ELSE mag>>
        ELSE <<>>

\* The positions 1..n, in order.
Indices(n) == [i \in 1..n |-> i]

\* ------------------------------------------------------------- DataFrames

EmptyFrame == [cols |-> <<>>, rows |-> <<>>]

\* df.empty
IsEmpty(df) == Len(df.cols) = 0 \/ Len(df.rows) = 0

\* The positions of a label among the columns.
Positions(cols, label) == {i \in 1..Len(cols) : cols[i] = label}

\* label in df.columns
HasCol(df, label) == Positions(df.cols, label) # {}

ColAt(cols, label) == CHOOSE i \in Positions(cols, label) : TRUE

\* df.rename(columns=..., errors='ignore'): labels the mapping does not
\* name pass through.
RenameOne(df, from, to) ==
    [df EXCEPT !.cols = [i \in 1..Len(df.cols) |->
                           IF df.cols[i] = from THEN to ELSE df.cols[i]]]

\* The rows whose cell at position `at`, as a string, equals text, in order:
\* df[df[label].astype(str) == text].
KeepRows(rows, at, text) ==
    LET Keep(row) == AsStr(row[at]) = text
    IN  SelectSeq(rows, Keep)

\* ------------------------------------------------------------ the sources

\* api_urls: the keys of the three endpoints, in the order of the dict.
api_urls == <<"roe", "stock_price", "finance">>

SourceKeys == {api_urls[i] : i \in 1..Len(api_urls)}

\* required_columns: raw label -> canonical label.
required_columns ==
    [CompanyCode |-> "StockId",
     Year |-> "FiscalYear",
     Quarter |-> "FiscalQuarter",
     OperatingRevenue |-> "Revenue",
     GrossProfit |-> "GrossProfit",
     OperatingIncome |-> "OperatingIncome",
     NetIncome |-> "NetIncome",
     BasicEPS |-> "EPS",
     ReturnOnEquity |-> "ROE",
     PEratio |-> "PE",
     DividendYield |-> "Yield",
     PBratio |-> "PB",
     ClosingPrice |-> "Close",
     MonthlyAveragePrice |-> "MonthAvg"]

\* df.rename(columns=required_columns, errors='ignore')
RenameRequired(df) ==
    [df EXCEPT !.cols = [i \in 1..Len(df.cols) |->
                           IF df.cols[i] \in DOMAIN required_columns
                           THEN required_columns[df.cols[i]]
                           ELSE df.cols[i]]]

\* What requests.get gives for one endpoint: the call raises (kind "raise":
\* no connection, a timeout), or it answers with a status code.  The table
\* response.json() holds when the status is 200 is kept apart (tables).
Raises == [kind |-> "raise", status |-> 0]
Answers(code) == [kind |-> "http", status |-> code]

\* The renames of fetch_data, lines 72-78.
Normalize(df) ==
    RenameRequired(RenameOne(RenameOne(df, "CompanyCode", "StockId"),
                             "Code", "StockId"))

\* The body of the loop of fetch_data for one key, the endpoint answering
\* resp and, for 200, delivering table: the frame kept, if any, and whether
\* st.error was called.  A table without an identifier column (an empty JSON
\* list is one) makes df["StockId"] raise KeyError inside the try.  (No table
\* of the model has two identifier columns.)
FetchOne(resp, table, sid) ==
    IF resp.kind = "raise" THEN [frame |-> <<>>, error |-> TRUE]
    ELSE IF resp.status # 200 THEN [frame |-> <<>>, error |-> FALSE]
    ELSE LET df == Normalize(table)
         IN  IF ~HasCol(df, "StockId") THEN [frame |-> <<>>, error |-> TRUE]
             ELSE LET kept == [df EXCEPT !.rows =
                                 KeepRows(df.rows, ColAt(df.cols, "StockId"),
                                          sid)]
                  IN  IF ~IsEmpty(kept)
                      THEN [frame |-> <<kept>>, error |-> FALSE]
                      ELSE [frame |-> <<>>, error |-> FALSE]

\* data_frames (the frames kept, in insertion order), the keys st.error was
\* called for and the keys requests.get was called for, after one more key.
FetchStep(acc, key, one) ==
    [data_frames |->
        acc.data_frames \o
        (IF one.frame = <<>> THEN <<>> ELSE <<[key |-> key, df |-> one.frame[1]]>>),
     errors |-> acc.errors \o (IF one.error THEN <<key>> ELSE <<>>),
     requested |-> acc.requested \o <<key>>]

NoFetch == [data_frames |-> <<>>, errors |-> <<>>, requested |-> <<>>]

\* A fetch_data whose loop stops at the first exception, as if the try
\* enclosed the loop: the keys after the failing one are not requested.
fetch_data_stops_at_error(sid, responses, tables) ==
    LET after[i \in 0..Len(api_urls)] ==
            IF i = 0 THEN NoFetch
            ELSE IF after[i - 1].errors # <<>> THEN after[i - 1]
            ELSE FetchStep(after[i - 1], api_urls[i],
                           FetchOne(responses[api_urls[i]],
                                    tables[api_urls[i]], sid))
    IN  after[Len(api_urls)]

\* fetch_data(stock_id), the decorated function's body: the loop over
\* api_urls, after(i) being the state after the first i keys.
fetch_data(sid, responses, tables) ==
    LET after[i \in 0..Len(api_urls)] ==
            IF i = 0 THEN NoFetch
            ELSE FetchStep(after[i - 1], api_urls[i],
                           FetchOne(responses[api_urls[i]],
                                    tables[api_urls[i]], sid))
    IN  after[Len(api_urls)]

\* The keys of a data_frames dict.
Keys(frames) == {frames[i].key : i \in 1..Len(frames)}

\* ------------------------------------------------------------- merge_data

\* Series.astype(str) on the identifier column, lines 95-97.
IdAsStr(df) ==
    IF ~HasCol(df, "StockId") THEN df
    ELSE [df EXCEPT !.rows = [r \in 1..Len(df.rows) |->
            [i \in 1..Len(df.cols) |->
                IF df.cols[i] = "StockId"
                THEN StrCell(AsStr(df.rows[r][i]))
                ELSE df.rows[r][i]]]]

\* The positions of the columns other than the join key, in order.
OtherCols(cols) ==
    LET NotKey(i) == cols[i] # "StockId"
    IN  SelectSeq(Indices(Len(cols)), NotKey)

\* The labels present on both sides of a merge, the key apart: pandas
\* appends "_x" to the left one and "_y" to the right one.
Overlap(left, right) ==
    {l \in {left.cols[i] : i \in 1..Len(left.cols)} :
        l # "StockId" /\ HasCol(right, l)}

NullRow(n) == [i \in 1..n |-> Null]

\* The rows of the join contributed by left row l: one per right row of the
\* same key, or l padded with missing values when there is none.
JoinLeftRow(l, lk, right, rk) ==
    LET others == OtherCols(right.cols)
        Match(j) == right.rows[j][rk] = l[lk]
        matches == SelectSeq(Indices(Len(right.rows)), Match)
    IN  IF matches = <<>> THEN <<l \o NullRow(Len(others))>>
        ELSE [m \in 1..Len(matches) |->
                l \o [i \in 1..Len(others) |->
                        right.rows[matches[m]][others[i]]]]

\* The rows of right whose key no row of left has: the left columns are
\* missing, the key is the right one.
JoinRightOnly(left, lk, right, rk) ==
    LET others == OtherCols(right.cols)
        Alone(j) == \A m \in 1..Len(left.rows) :
                        left.rows[m][lk] # right.rows[j][rk]
        alone == SelectSeq(Indices(Len(right.rows)), Alone)
    IN  [a \in 1..Len(alone) |->
            [i \in 1..Len(left.cols) |->
                IF i = lk THEN right.rows[alone[a]][rk] ELSE Null]
            \o [i \in 1..Len(others) |-> right.rows[alone[a]][others[i]]]]

\* left.merge(right, on="StockId", how="outer").  The columns are those of
\* left, then those of right without the key, the labels of both sides
\* suffixed.  Every frame fetch_data keeps holds rows of one identifier, so
\* the rows are the pairs of a left and a right row, the left row varying
\* slowest; rows of other keys follow (pandas would sort them by key).
Merge(left, right) ==
    LET both == Overlap(left, right)
        lk == ColAt(left.cols, "StockId")
        rk == ColAt(right.cols, "StockId")
        others == OtherCols(right.cols)
        lcols == [i \in 1..Len(left.cols) |->
                    IF left.cols[i] \in both THEN left.cols[i] \o "_x"
                    ELSE left.cols[i]]
        rcols == [i \in 1..Len(others) |->
                    IF right.cols[others[i]] \in both
                    THEN right.cols[others[i]] \o "_y"
                    ELSE right.cols[others[i]]]
        pairs[i \in 0..Len(left.rows)] ==
            IF i = 0 THEN <<>>
            ELSE pairs[i - 1] \o JoinLeftRow(left.rows[i], lk, right, rk)
    IN  [cols |-> lcols \o rcols,
         rows |-> pairs[Len(left.rows)]
                  \o JoinRightOnly(left, lk, right, rk)]

\* The loop of lines 100-105: the first frame, then every other frame merged
\* onto it in the order of the dict.
MergeAll(frames) ==
    LET merged[i \in 1..Len(frames)] ==
            IF i = 1 THEN IdAsStr(frames[1].df)
            ELSE Merge(merged[i - 1], IdAsStr(frames[i].df))
    IN  merged[Len(frames)]

\* col.startswith('Name')
StartsWithName(label) == Len(label) >= 4 /\ SubSeq(label, 1, 4) = "Name"

\* name_columns: the labels that start with 'Name', in column order.
NameColumns(cols) == SelectSeq(cols, StartsWithName)

\* df.drop(columns=labels)
DropCols(df, labels) ==
    LET Kept(i) == df.cols[i] \notin labels
        kept == SelectSeq(Indices(Len(df.cols)), Kept)
    IN  [cols |-> [i \in 1..Len(kept) |-> df.cols[kept[i]]],
         rows |-> [r \in 1..Len(df.rows) |->
                     [i \in 1..Len(kept) |-> df.rows[r][kept[i]]]]]

\* Lines 108-115: the first 'Name' column becomes "CompanyName", the other
\* 'Name' columns are dropped.  A "CompanyName" column a source delivered
\* under that label is no 'Name' column and is left where it is.
CollapseNames(df) ==
    LET name_columns == NameColumns(df.cols)
    IN  IF Len(name_columns) > 0
        THEN DropCols(RenameOne(df, name_columns[1], "CompanyName"),
                      {name_columns[i] : i \in 2..Len(name_columns)})
        ELSE df

\* numeric_cols, line 118.
numeric_cols == <<"EPS", "ROE", "NetIncome", "PE", "Yield", "PB", "Close",
                  "MonthAvg">>

\* pd.to_numeric(errors='coerce'), one element: a text that is no plain
\* number (thousands separators and percent signs included) becomes NaN.
ToNumeric(cell) ==
    IF cell.k # "str" THEN cell
    ELSE LET parsed == ParseFloat(cell.s)
         IN  IF parsed = <<>> THEN Null ELSE FloatCell(parsed[1])

\* Lines 118-121.  (No frame of the model has a numeric label twice.)
CoerceNumeric(df) ==
    LET numeric == {numeric_cols[i] : i \in 1..Len(numeric_cols)}
    IN  [df EXCEPT !.rows = [r \in 1..Len(df.rows) |->
            [i \in 1..Len(df.cols) |->
                IF df.cols[i] \in numeric THEN ToNumeric(df.rows[r][i])
                ELSE df.rows[r][i]]]]

\* merge_data(data_frames)
merge_data(frames) ==
    IF Len(frames) = 0 THEN EmptyFrame
    ELSE CoerceNumeric(CollapseNames(MergeAll(frames)))

\* ------------------------------------------------- extract_financial_data

\* The nine metrics of clean_data, in the order of the dict (lines 145-153).
MetricKeys == <<"Revenue", "NetIncome", "EPS", "ROE", "PE", "Yield", "PB",
                "Close", "MonthAvg">>

Metrics == {MetricKeys[i] : i \in 1..Len(MetricKeys)}

\* field_mappings, lines 157-166, in the order of the dict: the labels tried
\* for each key, in priority order.  There is no entry for "ROE".
field_mappings ==
    <<[key |-> "Revenue", cols |-> <<"Revenue", "RevenueShort">>],
      [key |-> "NetIncome",
       cols |-> <<"NetIncomeLoss", "NetIncome", "NetLoss", "Profit">>],
      [key |-> "EPS", cols |-> <<"BasicEPSYuan", "EPS", "EPSLong">>],
      [key |-> "PE", cols |-> <<"PE", "P/E">>],
      [key |-> "Yield", cols |-> <<"Yield", "DivYield">>],
      [key |-> "PB", cols |-> <<"PB", "P/B", "PBR">>],
      [key |-> "Close", cols |-> <<"Close", "Price">>],
      [key |-> "MonthAvg", cols |-> <<"MonthAvg", "MonthAvgLong">>]>>

\* float(value) after lines 175-176: <<hundredths>>, or <<>> when float
\* raises ValueError or TypeError.
ToFloat(cell) ==
    CASE cell.k = "str" ->
             ParseFloat(RemoveChar(RemoveChar(cell.s, ","), "%"))
      [] cell.k = "int" -> <<cell.v * 100>>
      [] cell.k = "float" -> <<cell.v>>
      [] OTHER -> <<>>

\* The inner loop of lines 170-180 for one key: the value of the first label
\* that is in the row, is not null and converts, or <<>>.  row is a row of a
\* frame with the columns cols; from(i) is the loop from alias i on.
FirstValue(cols, row, possible_cols) ==
    LET from[i \in 1..(Len(possible_cols) + 1)] ==
            IF i > Len(possible_cols) THEN <<>>
            ELSE LET col_name == possible_cols[i]
                     present == Positions(cols, col_name) # {}
                     value == row[ColAt(cols, col_name)]
                     number == ToFloat(value)
                 IN  IF present /\ value.k # "null" /\ number # <<>>
                     THEN number
                     ELSE from[i + 1]
    IN  from[1]

\* The outer loop of lines 169-180: clean_data after every entry of
\* field_mappings.
Resolve(clean_data, cols, row) ==
    LET after[m \in 0..Len(field_mappings)] ==
            IF m = 0 THEN clean_data
            ELSE LET found == FirstValue(cols, row, field_mappings[m].cols)
                 IN  IF found = <<>> THEN after[m - 1]
                     ELSE [after[m - 1] EXCEPT
                             ![field_mappings[m].key] = found[1]]
    IN  after[Len(field_mappings)]

\* latest_data.get("CompanyName", "UnknownCompany"): the cells under the
\* label (one cell, or as many as the label has columns: pandas then returns
\* a Series), or the sentinel.
NameOf(cols, row) ==
    LET IsName(i) == cols[i] = "CompanyName"
        at == SelectSeq(Indices(Len(cols)), IsName)
    IN  IF at = <<>> THEN <<StrCell("UnknownCompany")>>
        ELSE [i \in 1..Len(at) |-> row[at[i]]]

\* clean_data as created at lines 142-154.
InitialCleanData(sid, name) ==
    [StockId |-> sid, CompanyName |-> name,
     Revenue |-> 0, NetIncome |-> 0, EPS |-> 0, ROE |-> 0, PE |-> 0,
     Yield |-> 0, PB |-> 0, Close |-> 0, MonthAvg |-> 0]

\* n / d rounded to the nearest integer, a half to the even one (round()),
\* for n >= 0 and d > 0.
RoundDiv(n, d) ==
    LET q == n \div d
        r == n % d
    IN  IF 2 * r < d THEN q
        ELSE IF 2 * r > d THEN q + 1
        ELSE IF q % 2 = 0 THEN q ELSE q + 1

\* A derivation that does not look at the sign of EPS.
DeriveROE_any_eps(clean_data) ==
    IF clean_data.ROE = 0 /\ clean_data.PB > 0 /\ clean_data.Close > 0
    THEN [clean_data EXCEPT !.ROE =
            RoundDiv(100 * clean_data.EPS * clean_data.PB, clean_data.Close)]
    ELSE clean_data

\* Lines 183-190.  book_value_per_share is Close / PB, positive when both
\* are; EPS / book_value_per_share * 100 is 100 * EPS * PB / Close, in
\* hundredths.
DeriveROE(clean_data) ==
    IF clean_data.ROE = 0
    THEN IF clean_data.PB > 0 /\ clean_data.Close > 0
         THEN LET book_value_positive == clean_data.Close * clean_data.PB > 0
              IN  IF book_value_positive /\ clean_data.EPS > 0
                  THEN [clean_data EXCEPT !.ROE =
                          RoundDiv(100 * clean_data.EPS * clean_data.PB,
                                   clean_data.Close)]
                  ELSE clean_data
         ELSE clean_data
    ELSE clean_data

\* A completeness check that lists every non-positive value.
MissingFields_non_positive(clean_data) ==
    LET NotPositive(key) == clean_data[key] <= 0
    IN  SelectSeq(MetricKeys, NotPositive)

\* Lines 193-196: the keys of clean_data, the identifier and the name apart,
\* whose value is 0, in the order of the dict.
MissingFields(clean_data) ==
    LET IsZero(key) == clean_data[key] = 0
    IN  SelectSeq(MetricKeys, IsZero)

\* critical_fields, line 199.
critical_fields == <<"NetIncome", "EPS", "ROE", "Close">>

\* A flag raised by negative values only.
HasCriticalErrors_negative_only(clean_data) ==
    \E i \in 1..Len(critical_fields) : clean_data[critical_fields[i]] < 0

\* Lines 200-204.
HasCriticalErrors(clean_data) ==
    \E i \in 1..Len(critical_fields) : clean_data[critical_fields[i]] <= 0

\* The rows of df whose identifier, as a string, is stock_id (lines 131-135).
StockData(df, sid) ==
    KeepRows(df.rows, ColAt(df.cols, "StockId"), sid)

\* clean_data after the alias loop, for the last matching row.
ResolveAliases(df, sid) ==
    LET stock_data == StockData(df, sid)
        latest_data == stock_data[Len(stock_data)]
    IN  Resolve(InitialCleanData(sid, NameOf(df.cols, latest_data)),
                df.cols, latest_data)

\* What extract_financial_data returns for a non-empty selection: clean_data
\* with missing_fields and has_critical_errors added (lines 206-209).
Finish(clean_data) ==
    [data |-> clean_data,
     missing_fields |-> MissingFields(clean_data),
     has_critical_errors |-> HasCriticalErrors(clean_data)]

\* extract_financial_data(df, stock_id): <<>> for None.
extract_financial_data(df, sid) ==
    IF IsEmpty(df) THEN <<>>
    ELSE IF StockData(df, sid) = <<>> THEN <<>>
    ELSE <<Finish(DeriveROE(ResolveAliases(df, sid)))>>

\* ------------------------------------------------------------------ main

\* What main shows after fetch_data returned (lines 362-421): the message
\* ("no_data", "merge_failed" and "extract_failed" are the three st.error
\* calls that end the request, "report" is the summary with the AI report),
\* the merged frame, the extracted record, whether analyze_with_ai sent a
\* prompt to the AI service and the frame offered for download as CSV.
Shown(text, merged, record, prompted, download) ==
    [message |-> text, merged_df |-> merged, financial_data |-> record,
     ai_called |-> prompted, csv |-> download]

Welcome == Shown("welcome", EmptyFrame, <<>>, FALSE, <<>>)

\* A main without the return of lines 362-364.
main_without_first_return(sid, frames) ==
    LET merged == merge_data(frames)
    IN  IF IsEmpty(merged)
        THEN Shown("merge_failed", merged, <<>>, FALSE, <<>>)
        ELSE LET record == extract_financial_data(merged, sid)
             IN  IF record = <<>>
                 THEN Shown("extract_failed", merged, <<>>, FALSE, <<>>)
                 ELSE Shown("report", merged, record, TRUE, <<merged>>)

main(sid, frames) ==
    IF Len(frames) = 0
    THEN Shown("no_data", EmptyFrame, <<>>, FALSE, <<>>)
    ELSE LET merged == merge_data(frames)
         IN  IF IsEmpty(merged)
             THEN Shown("merge_failed", merged, <<>>, FALSE, <<>>)
             ELSE LET record == extract_financial_data(merged, sid)
                  IN  IF record = <<>>
                      THEN Shown("extract_failed", merged, <<>>, FALSE, <<>>)
                      ELSE Shown("report", merged, record, TRUE, <<merged>>)

\* ------------------------------------------------------------- the cache

\* @st.cache_data(ttl=3600), line 61: seconds.
TTL == 3600

\* The clock advances by half a time to live.
TickLen == TTL \div 2

\* An entry of the cache of fetch_data: what the body returned, the st.error
\* calls it made (st.cache_data replays them on a hit) and its age.
Entry(fetched, age) ==
    [data_frames |-> fetched.data_frames, errors |-> fetched.errors,
     age |-> age]

Fresh(slot) == slot # <<>> /\ slot[1].age < TTL

\* ------------------------------------------------------------- the state

VARIABLES
    stage,          \* "page": the interactive page; "drawn" and "done":
                    \* one request on drawn inputs, before and after it
    payload,        \* key -> the table the endpoint delivers with a 200
    upstream,       \* key -> what the endpoint does at the last request
    cache,          \* stock_id -> <<>> or <<entry>>: the cache of fetch_data
    stock_id,       \* the identifier of the last request, stripped
    data_frames,    \* what fetch_data returned
    warnings,       \* the keys st.error was shown for by fetch_data
    requested,      \* the keys requests.get was called for by the request
    merged_df,      \* what merge_data returned
    financial_data, \* what extract_financial_data returned
    message,        \* what main shows
    ai_called,      \* whether a prompt went to the AI service
    csv             \* the frame offered for download

vars == <<stage, payload, upstream, cache, stock_id, data_frames, warnings,
          requested, merged_df, financial_data, message, ai_called, csv>>

\* ------------------------------------------------- the interactive page

\* What the three endpoints deliver when they answer 200.  The valuation
\* table ("roe") and the price table know 2330 and 1101, the first with
\* integer codes, the second with text codes; the statement table
\* ("finance") knows 2330 and 9999, the latter with a net income and an
\* EPS of 0.
RoePayload ==
    [cols |-> <<"Code", "Name", "PEratio", "DividendYield", "PBratio">>,
     rows |-> <<<<IntCell(2330), StrCell("TSMC"), StrCell("25.00"),
                  StrCell("1.50"), StrCell("2.00")>>,
                <<IntCell(1101), StrCell("TCC"), StrCell("12.00"),
                  StrCell("4.00"), StrCell("0.90")>>>>]

PricePayload ==
    [cols |-> <<"Code", "Name", "ClosingPrice", "MonthlyAveragePrice">>,
     rows |-> <<<<StrCell("1101"), StrCell("TCC"), StrCell("33.00"),
                  StrCell("32.50")>>,
                <<StrCell("2330"), StrCell("TSMC"), StrCell("100.00"),
                  StrCell("98.50")>>>>]

FinancePayload ==
    [cols |-> <<"CompanyCode", "CompanyName", "OperatingRevenue",
                "NetIncomeLoss", "BasicEPSYuan">>,
     rows |-> <<<<StrCell("2330"), StrCell("TSMC"), StrCell("1000.00"),
                  StrCell("300.00"), StrCell("5.00")>>,
                <<StrCell("9999"), StrCell("Test"), StrCell("80.00"),
                  StrCell("0.00"), StrCell("0.00")>>>>]

PagePayload ==
    [k \in SourceKeys |->
        CASE k = "roe" -> RoePayload
          [] k = "stock_price" -> PricePayload
          [] OTHER -> FinancePayload]

\* What one endpoint may do at a request: raise, answer 503, answer 200.
Outcomes == {Raises, Answers(503), Answers(200)}

Responses == [SourceKeys -> Outcomes]

\* What the user types in the text field of the page.
Inputs == {" 2330 ", "2330"}

\* The identifiers the cache has a slot for.
CacheKeys == {"2330", "9999"}

PageKeys == {Strip(i) : i \in Inputs}

\* The results of fetch_data and of the rest of main for the identifiers,
\* responses and tables of the page, tabulated: they are looked up instead of
\* computed again at every request.
FetchTable ==
    {[sid |-> sid, r |-> r, out |-> fetch_data(sid, r, PagePayload)] :
        sid \in PageKeys, r \in Responses}

MainTable ==
    {[sid |-> e.sid, d |-> e.out.data_frames,
      out |-> main(e.sid, e.out.data_frames)] : e \in FetchTable}

FetchOf(sid, r) == (CHOOSE e \in FetchTable : e.sid = sid /\ e.r = r).out

MainOf(sid, d) == (CHOOSE e \in MainTable : e.sid = sid /\ e.d = d).out

NoResponse == [k \in SourceKeys |-> Raises]

Init ==
    /\ stage = "page"
    /\ payload = PagePayload
    /\ upstream = NoResponse
    /\ cache = [k \in CacheKeys |-> <<>>]
    /\ stock_id = ""
    /\ data_frames = <<>>
    /\ warnings = <<>>
    /\ requested = <<>>
    /\ merged_df = EmptyFrame
    /\ financial_data = <<>>
    /\ message = "welcome"
    /\ ai_called = FALSE
    /\ csv = <<>>

\* fetch_data(stock_id) as main calls it, through st.cache_data: a fresh
\* entry is returned without running the body (its st.error calls are
\* replayed), otherwise the body runs and its result is stored.
CachedFetch(slot, sid, responses) ==
    IF Fresh(slot)
    THEN [data_frames |-> slot[1].data_frames, errors |-> slot[1].errors,
          requested |-> <<>>]
    ELSE FetchOf(sid, responses)

\* A run of the script with the form submitted and a non-empty identifier
\* (lines 353-421), the endpoints answering `responses`.
Submit(input, responses) ==
    /\ stage = "page"
    /\ input # ""
    /\ LET sid == Strip(input)
           fetched == CachedFetch(cache[sid], sid, responses)
           shown == MainOf(sid, fetched.data_frames)
       IN  /\ stock_id' = sid
           /\ upstream' = responses
           /\ cache' = IF Fresh(cache[sid]) THEN cache
                       ELSE [cache EXCEPT ![sid] = <<Entry(fetched, 0)>>]
           /\ data_frames' = fetched.data_frames
           /\ warnings' = fetched.errors
           /\ requested' = fetched.requested
           /\ merged_df' = shown.merged_df
           /\ financial_data' = shown.financial_data
           /\ message' = shown.message
           /\ ai_called' = shown.ai_called
           /\ csv' = shown.csv
    /\ UNCHANGED <<stage, payload>>

\* A run of the script without a submission, or with an empty identifier:
\* line 353 is false and only the welcome text and the form are drawn.
Rerun ==
    /\ stage = "page"
    /\ message # "welcome"
    /\ stock_id' = ""
    /\ data_frames' = <<>>
    /\ warnings' = <<>>
    /\ requested' = <<>>
    /\ merged_df' = EmptyFrame
    /\ financial_data' = <<>>
    /\ message' = "welcome"
    /\ ai_called' = FALSE
    /\ csv' = <<>>
    /\ UNCHANGED <<stage, payload, upstream, cache>>

\* Time passes: every entry of the cache ages, and an entry that reached its
\* time to live is gone.
Tick ==
    /\ stage = "page"
    /\ \E k \in CacheKeys : cache[k] # <<>>
    /\ cache' = [k \in CacheKeys |->
                   IF cache[k] = <<>> THEN <<>>
                   ELSE IF cache[k][1].age + TickLen >= TTL THEN <<>>
                   ELSE <<[cache[k][1] EXCEPT !.age = @ + TickLen]>>]
    /\ UNCHANGED <<stage, payload, upstream, stock_id, data_frames, warnings,
                   requested, merged_df, financial_data, message, ai_called,
                   csv>>

Next ==
    \/ \E input \in Inputs, responses \in Responses : Submit(input, responses)
    \/ Rerun
    \/ Tick

Spec == Init /\ [][Next]_vars

\* ------------------------------------------- one request on drawn inputs

\* The largest number of rows a table has for one identifier.
MaxRows == 2

\* A column a table may lack.
Absent == [k |-> "absent", v |-> 0, s |-> ""]

Field(label, cell) ==
    IF cell = Absent THEN <<>> ELSE <<[label |-> label, cell |-> cell]>>

\* The table of one JSON object with the given fields.
OneRow(fields) ==
    [cols |-> [i \in 1..Len(fields) |-> fields[i].label],
     rows |-> <<[i \in 1..Len(fields) |-> fields[i].cell]>>]

\* A text with a thousands separator and a percent sign.
Text == StrCell("1,234.5%")

\* The valuation table: integer code, optional name, P/B, optional ROE.
RoeTable(name, pb, roe) ==
    OneRow(Field("Code", IntCell(2330)) \o Field("Name", name)
           \o Field("PEratio", StrCell("25.00"))
           \o Field("DividendYield", StrCell("1.50"))
           \o Field("PBratio", pb) \o Field("ReturnOnEquity", roe))

\* The price table: text code, optional name, closing price, optional
\* column under the alias "Price".
PriceTable(name, close, price) ==
    OneRow(Field("Code", StrCell("2330")) \o Field("Name", name)
           \o Field("ClosingPrice", close)
           \o Field("MonthlyAveragePrice", StrCell("98.50"))
           \o Field("Price", price))

\* The price table with n rows for the identifier, after a row of another.
PriceRows(n) ==
    [cols |-> <<"Code", "Name", "ClosingPrice", "MonthlyAveragePrice">>,
     rows |-> <<<<StrCell("1101"), StrCell("TCC"), StrCell("33.00"),
                  StrCell("32.50")>>>>
              \o [i \in 1..n |-> <<StrCell("2330"), StrCell("TSMC-price"),
                                   IntCell(100 + i), StrCell("98.50")>>]]

\* The statement table: the name under a label or absent, the net income
\* and the EPS under two labels each.
FinanceTable(name_label, net_income_loss, net_income, eps_yuan, eps) ==
    OneRow(Field("CompanyCode", StrCell("2330"))
           \o (IF name_label = "" THEN <<>>
               ELSE Field(name_label, StrCell("TSMC-fin")))
           \o Field("OperatingRevenue", Text)
           \o Field("NetIncomeLoss", net_income_loss)
           \o Field("NetIncome", net_income)
           \o Field("BasicEPSYuan", eps_yuan)
           \o Field("BasicEPS", eps))

Tables(roe, price, finance) ==
    [k \in SourceKeys |->
        CASE k = "roe" -> roe
          [] k = "stock_price" -> price
          [] OTHER -> finance]

\* A table without the rows of 2330.
Without2330(table) ==
    LET Other(row) == AsStr(row[1]) # "2330"
    IN  [table EXCEPT !.rows = SelectSeq(table.rows, Other)]

AllAnswer == [k \in SourceKeys |-> Answers(200)]

Case(sid, responses, tables) ==
    [sid |-> sid, responses |-> responses, tables |-> tables]

RoeDefault == RoeTable(StrCell("TSMC-roe"), StrCell("2.00"), Absent)
PriceDefault == PriceTable(StrCell("TSMC-price"), StrCell("100.00"), Absent)
FinanceDefault ==
    FinanceTable("CompanyName", StrCell("300.00"), Absent, StrCell("5.00"),
                 Absent)

\* Every outcome of every source: it raises, answers 503, answers 200 with
\* or without a row of the identifier, or (finance) with an empty list.
FetchCases ==
    {Case("2330", r, Tables(a, b, c)) :
        r \in Responses,
        a \in {RoePayload, Without2330(RoePayload)},
        b \in {PricePayload, Without2330(PricePayload)},
        c \in {FinancePayload, Without2330(FinancePayload), EmptyFrame}}
    \cup {Case("9999", r, PagePayload) : r \in Responses}

\* The inputs of the ROE derivation: P/B, closing price, EPS, and a ROE
\* column or none.
DerivationCases ==
    {Case("2330", AllAnswer,
          Tables(RoeTable(StrCell("TSMC-roe"), pb, roe),
                 PriceTable(StrCell("TSMC-price"), close, Absent),
                 FinanceTable("CompanyName", StrCell("300.00"), Absent, eps,
                              Absent))) :
        pb \in {StrCell("2.00"), StrCell("0.00"), FloatCell(-150), Null},
        roe \in {Absent, StrCell("15.50")},
        close \in {StrCell("100.00"), StrCell("33.00"), Text, IntCell(0)},
        eps \in {StrCell("5.00"), StrCell("--"), StrCell("0.00"),
                 FloatCell(-120)}}

\* The aliases of net income, EPS and closing price: present or absent,
\* null, unparseable, zero, negative.
AliasCases ==
    {Case("2330", AllAnswer,
          Tables(RoeDefault,
                 PriceTable(StrCell("TSMC-price"), close, price),
                 FinanceTable("CompanyName", nil, ni, epsy, eps))) :
        close \in {StrCell("100.00"), Null, Text, Absent},
        price \in {Absent, StrCell("95.00")},
        nil \in {Absent, Null, StrCell("abc"), StrCell("300.00")},
        ni \in {Absent, IntCell(0), FloatCell(700)},
        epsy \in {Absent, StrCell("5.00"), StrCell("--")},
        eps \in {Absent, FloatCell(-120)}}

\* The name columns: each source with or without one, the statement table
\* under "Name" or under the canonical label, each source fetched or not.
NameCases ==
    {Case("2330", r,
          Tables(RoeTable(a, StrCell("2.00"), Absent),
                 PriceTable(b, StrCell("100.00"), Absent),
                 FinanceTable(c, StrCell("300.00"), Absent, StrCell("5.00"),
                              Absent))) :
        r \in [SourceKeys -> {Raises, Answers(200)}],
        a \in {Absent, StrCell("TSMC-roe")},
        b \in {Absent, StrCell("TSMC-price")},
        c \in {"", "Name", "CompanyName"}}

\* Every metric delivered as text with a separator and a percent sign.
TextCases ==
    {Case("2330", r,
          Tables(OneRow(Field("Code", IntCell(2330))
                        \o Field("PEratio", Text)
                        \o Field("DividendYield", Text)
                        \o Field("PBratio", Text)
                        \o Field("ReturnOnEquity", Text)),
                 PriceTable(Absent, Text, Absent),
                 FinanceTable("", nil, ni, epsy, eps))) :
        r \in [SourceKeys -> {Raises, Answers(200)}],
        nil \in {Absent, Text}, ni \in {Absent, Text},
        epsy \in {Absent, Text}, eps \in {Absent, Text}}

\* Several rows of the identifier in the price table.
RowCases ==
    {Case("2330", AllAnswer, Tables(RoeDefault, PriceRows(n), FinanceDefault)) :
        n \in 1..MaxRows}

Cases ==
    FetchCases \cup DerivationCases \cup AliasCases \cup NameCases
    \cup TextCases \cup RowCases

InitRequest ==
    \E c \in Cases :
        /\ stage = "drawn"
        /\ payload = c.tables
        /\ upstream = c.responses
        /\ stock_id = c.sid
        /\ cache = [k \in CacheKeys |-> <<>>]
        /\ data_frames = <<>>
        /\ warnings = <<>>
        /\ requested = <<>>
        /\ merged_df = EmptyFrame
        /\ financial_data = <<>>
        /\ message = "welcome"
        /\ ai_called = FALSE
        /\ csv = <<>>

\* One run of the script with the form submitted (lines 353-421), the cache
\* empty: fetch_data runs its body on what the endpoints deliver.
Request ==
    /\ stage = "drawn"
    /\ LET sid == Strip(stock_id)
           fetched == fetch_data(sid, upstream, payload)
           shown == main(sid, fetched.data_frames)
       IN  /\ stock_id' = sid
           /\ cache' = [cache EXCEPT ![sid] = <<Entry(fetched, 0)>>]
           /\ data_frames' = fetched.data_frames
           /\ warnings' = fetched.errors
           /\ requested' = fetched.requested
           /\ merged_df' = shown.merged_df
           /\ financial_data' = shown.financial_data
           /\ message' = shown.message
           /\ ai_called' = shown.ai_called
           /\ csv' = shown.csv
    /\ stage' = "done"
    /\ UNCHANGED <<payload, upstream>>

NextRequest == Request

SpecRequest == InitRequest /\ [][NextRequest]_vars

\* --------------------------------------------------------------- claims

\* The request of SpecRequest has run.
Done == stage = "done"

\* The request produced a record.
Extracted == Done /\ financial_data # <<>>

SeqSet(q) == {q[i] : i \in 1..Len(q)}

\* The labels a source delivers the identifier under.
IdLabels == {"Code", "CompanyCode"}

IdColumns(table) == {i \in 1..Len(table.cols) : table.cols[i] \in IdLabels}

\* The rows of a delivered table whose identifier, as a string, is sid.
MatchingRows(table, sid) ==
    {r \in 1..Len(table.rows) :
        \E i \in IdColumns(table) : AsStr(table.rows[r][i]) = sid}

\* The source answers 200 with at least one row of the identifier.
Yields(k) ==
    /\ upstream[k] = Answers(200)
    /\ MatchingRows(payload[k], stock_id) # {}

\* The request of the source ends in an exception (of the network, or of
\* the parsing of a table without identifiers) or in a non-200 response.
Fails(k) ==
    \/ upstream[k] = Raises
    \/ upstream[k].status # 200
    \/ IdColumns(payload[k]) = {}

\* C1: whatever each of the three sources does (raise, answer non-200,
\* answer 200 without or with a row of the identifier), fetch_data returns
\* exactly the keys of the sources that answered 200 with a row whose
\* identifier, as a string, is stock_id (integer 2330 and text "2330" both
\* match), and every source is requested whatever the others did.
C1_FetchIsolation ==
    Done =>
        /\ Keys(data_frames) = {k \in SourceKeys : Yields(k)}
        /\ requested = api_urls

C1_Witness ==
    /\ Done
    /\ stock_id = "2330"
    /\ Yields("roe")
    /\ \E r \in MatchingRows(payload["roe"], "2330") :
          payload["roe"].rows[r][1] = IntCell(2330)
    /\ upstream["stock_price"] = Raises
    /\ Yields("finance")
    /\ Keys(data_frames) = {"roe", "finance"}

\* C2: when no source yields a row of the identifier (every source failed,
\* or answered without such a row), the request ends with the "not found"
\* message, and nothing is merged, extracted, sent to the AI service or
\* offered as CSV.
C2_NotFound ==
    (Done /\ \A k \in SourceKeys : ~Yields(k)) =>
        /\ message = "no_data"
        /\ merged_df = EmptyFrame
        /\ financial_data = <<>>
        /\ ~ai_called
        /\ csv = <<>>

C2_Witness ==
    /\ Done
    /\ upstream["roe"] = Raises
    /\ upstream["stock_price"] = Answers(503)
    /\ upstream["finance"] = Answers(200)
    /\ ~Yields("finance")
    /\ message = "no_data"
    /\ ~ai_called

\* C3: a submission is the retry: a source that answers 200 at a submission
\* (every table of the page has a row of 2330) contributes its frame to that
\* submission, whatever it did at an earlier one.
C3_ResubmissionRetries ==
    (stage = "page" /\ message # "welcome") =>
        \A k \in SourceKeys :
            upstream[k] = Answers(200) => k \in Keys(data_frames)

\* C4: missing_fields lists exactly the metrics of the returned record whose
\* final value is 0, each once; a non-zero metric is not listed, and neither
\* is the identifier or the name.
C4_MissingFieldsExact ==
    Extracted =>
        LET rec == financial_data[1]
        IN  /\ SeqSet(rec.missing_fields) =
                   {m \in Metrics : rec.data[m] = 0}
            /\ Len(rec.missing_fields) = Cardinality(SeqSet(rec.missing_fields))

C4_Witness ==
    /\ Extracted
    /\ financial_data[1].data.EPS < 0
    /\ financial_data[1].data.Close = 0
    /\ financial_data[1].data.PB > 0
    /\ "EPS" \notin SeqSet(financial_data[1].missing_fields)
    /\ "Close" \in SeqSet(financial_data[1].missing_fields)

\* The four critical metrics.
Critical == {"NetIncome", "EPS", "ROE", "Close"}

\* C5: has_critical_errors is true exactly when one of net income, EPS, ROE
\* and closing price is <= 0 in the returned record; when only finance has a
\* row and it carries net income 0 and EPS 0, the flag is true and the four
\* are in missing_fields; the record is returned all the same.
C5_CriticalFlag ==
    Extracted =>
        LET rec == financial_data[1]
        IN  /\ rec.has_critical_errors <=>
                   \E m \in Critical : rec.data[m] <= 0
            /\ (/\ Keys(data_frames) = {"finance"}
                /\ rec.data.NetIncome = 0
                /\ rec.data.EPS = 0)
               => /\ rec.has_critical_errors
                  /\ Critical \subseteq SeqSet(rec.missing_fields)
            /\ message = "report"

C5_Witness ==
    /\ Extracted
    /\ stock_id = "9999"
    /\ \A k \in SourceKeys : upstream[k] = Answers(200)
    /\ Keys(data_frames) = {"finance"}
    /\ financial_data[1].data.NetIncome = 0
    /\ financial_data[1].data.EPS = 0
    /\ financial_data[1].has_critical_errors

\* r is n / d rounded to the nearest integer, a half to the even one.
IsRounded(r, n, d) ==
    LET off == IF r * d >= n THEN r * d - n ELSE n - r * d
    IN  /\ 2 * off <= d
        /\ 2 * off = d => r % 2 = 0

\* C6: in the returned record ROE is round(EPS / (Close / PB) * 100, 2) when
\* P/B, closing price and EPS are all positive and 0 otherwise (alias
\* resolution leaves ROE at 0); and the derivation leaves a record whose ROE
\* is already non-zero as it is.
C6_DerivedROE ==
    Extracted =>
        LET d == financial_data[1].data
        IN  /\ IF d.PB > 0 /\ d.Close > 0 /\ d.EPS > 0
               THEN IsRounded(d.ROE, 100 * d.EPS * d.PB, d.Close)
               ELSE d.ROE = 0
            /\ \A given \in {-500, 1550} :
                  DeriveROE([d EXCEPT !.ROE = given]) =
                      [d EXCEPT !.ROE = given]

C6_Witness ==
    /\ Extracted
    /\ financial_data[1].data.PB = 200
    /\ financial_data[1].data.Close = 10000
    /\ financial_data[1].data.EPS = 500
    /\ financial_data[1].data.ROE = 1000

\* The canonical label of a delivered label.
Canonical(label) ==
    IF label \in DOMAIN required_columns THEN required_columns[label]
    ELSE label

\* The labels a metric is to be read from, in priority order: those of
\* field_mappings and, for ROE, its canonical label.
Aliases(m) ==
    IF m = "ROE" THEN <<"ROE">>
    ELSE LET e == CHOOSE i \in 1..Len(field_mappings) :
                      field_mappings[i].key = m
         IN  field_mappings[e].cols

\* The cells the fetched sources deliver for metric m in the rows of the
\* identifier.
Delivered(m) ==
    UNION {{payload[k].rows[r][i] :
                r \in MatchingRows(payload[k], stock_id),
                i \in {j \in 1..Len(payload[k].cols) :
                          Canonical(payload[k].cols[j]) \in SeqSet(Aliases(m))}} :
           k \in Keys(data_frames)}

\* C7: a metric the sources deliver as the text "1,234.5%" is 1234.5 in the
\* returned record.
C7_TextIsParsed ==
    Extracted =>
        \A m \in Metrics :
            Delivered(m) = {Text} => financial_data[1].data[m] = 123450

\* C8: fetch_data shows one warning for each source whose request ends in an
\* exception or in a non-200 response, and none for the others.
C8_WarningPerFailingSource ==
    Done =>
        /\ SeqSet(warnings) = {k \in SourceKeys : Fails(k)}
        /\ Len(warnings) = Cardinality(SeqSet(warnings))

\* The last row of the merged frame for the identifier.
LatestRow == LET rows == StockData(merged_df, stock_id) IN rows[Len(rows)]

\* C9: each of the nine metrics of the returned record is the value of its
\* first alias that is present, non-null and parseable in the last matching
\* row; it is 0 only when no alias is (ROE is then the derived one).
C9_AliasResolution ==
    Extracted =>
        \A m \in Metrics :
            LET found == FirstValue(merged_df.cols, LatestRow, Aliases(m))
            IN  /\ found # <<>> => financial_data[1].data[m] = found[1]
                /\ (found = <<>> /\ m # "ROE") =>
                       financial_data[1].data[m] = 0

\* The labels a source delivers the company name under.
NameLabels == {"Name", "CompanyName"}

NamePositions(table) ==
    {i \in 1..Len(table.cols) : table.cols[i] \in NameLabels}

\* The fetched sources that have a name column, in the order of the fetch.
Named ==
    LET HasName(i) == /\ api_urls[i] \in Keys(data_frames)
                      /\ NamePositions(payload[api_urls[i]]) # {}
    IN  SelectSeq(Indices(Len(api_urls)), HasName)

\* C10: when a fetched table has a name column, the merged frame has exactly
\* one name column, under the canonical label, holding the names of the
\* first fetched source that has one; no other name column is left.
C10_OneNameColumn ==
    (Done /\ ~IsEmpty(merged_df) /\ Named # <<>>) =>
        LET first == payload[api_urls[Named[1]]]
            names == {first.rows[r][i] :
                         r \in MatchingRows(first, stock_id),
                         i \in NamePositions(first)}
        IN  /\ Cardinality(Positions(merged_df.cols, "CompanyName")) = 1
            /\ NameColumns(merged_df.cols) = <<>>
            /\ \A r \in 1..Len(merged_df.rows) :
                  merged_df.rows[r][ColAt(merged_df.cols, "CompanyName")]
                      \in names

====
